---------------------------- MODULE Spec2Model ----------------------------
(***************************************************************************)
(* Model of app.py, the Streamlit ticket triage script: the ticket store   *)
(* (tickets.json), the resolution memory (memory.json), the confidence     *)
(* computation, the automatic processing pass and the three button         *)
(* handlers (Create Ticket, Search, Close Ticket Manually).                *)
(*                                                                         *)
(* Python strings that the code inspects character by character (ticket    *)
(* numbers, descriptions, extracted fields, typed inputs) are sequences of *)
(* one-character strings.  Strings the code only compares as a whole       *)
(* (status values, messages) are TLA+ strings.                             *)
(***************************************************************************)
EXTENDS Integers, Sequences, FiniteSets, TLC

(***************************************************************************)
(* Bounds of the model.                                                    *)
(***************************************************************************)
\* most tickets a Create Ticket handler may bring the store to
MaxTickets == 2

(***************************************************************************)
(* Characters and the str methods the code uses.                           *)
(***************************************************************************)
UpperChars == <<"A","B","C","D","E","F","G","H","I","J","K","L","M",
                "N","O","P","Q","R","S","T","U","V","W","X","Y","Z">>

LowerChars == <<"a","b","c","d","e","f","g","h","i","j","k","l","m",
                "n","o","p","q","r","s","t","u","v","w","x","y","z">>

DigitChars == <<"0","1","2","3","4","5","6","7","8","9">>

\* the characters str.strip() removes (of those the model uses)
Whitespace == {" "}

Range(f) == {f[i] : i \in DOMAIN f}

Letters == Range(UpperChars) \cup Range(LowerChars)

\* every character the model's strings are made of
Alphabet == Letters \cup Range(DigitChars) \cup {" ", "-", ",", "_", "+", "<None>"}

IndexIn(c, chars) == CHOOSE i \in DOMAIN chars : chars[i] = c

\* str.lower() and str.upper(), per character
LowerChar ==
  [c \in Alphabet |->
     IF c \in Range(UpperChars) THEN LowerChars[IndexIn(c, UpperChars)] ELSE c]

UpperChar ==
  [c \in Alphabet |->
     IF c \in Range(LowerChars) THEN UpperChars[IndexIn(c, LowerChars)] ELSE c]

DigitValue == [c \in Range(DigitChars) |-> IndexIn(c, DigitChars) - 1]

lower(s) == [i \in DOMAIN s |-> LowerChar[s[i]]]

upper(s) == [i \in DOMAIN s |-> UpperChar[s[i]]]

\* str.strip(): leading and trailing whitespace removed
RECURSIVE lstrip(_)
lstrip(s) == IF s # <<>> /\ Head(s) \in Whitespace THEN lstrip(Tail(s)) ELSE s

RECURSIVE rstrip(_)
rstrip(s) ==
  IF s # <<>> /\ s[Len(s)] \in Whitespace THEN rstrip(SubSeq(s, 1, Len(s) - 1)) ELSE s

strip(s) == rstrip(lstrip(s))

\* the regular expression class \w
WordChars == Letters \cup Range(DigitChars) \cup {"_"}

IsWordChar(c) == c \in WordChars

(***************************************************************************)
(* String constants of the source.                                         *)
(***************************************************************************)
EMPTY == <<>>

UNKNOWN == <<"u","n","k","n","o","w","n">>

NONE == <<"n","o","n","e">>

TICKET_PREFIX == <<"T","I","C","K","E","T","-">>

(***************************************************************************)
(* get_next_ticket_no: int(last.split("-")[1]) and f"TICKET-{n:04d}".      *)
(***************************************************************************)
\* str(n) for n >= 0
RECURSIVE DecimalDigits(_)
DecimalDigits(n) ==
  IF n < 10 THEN <<DigitChars[n + 1]>>
  ELSE Append(DecimalDigits(n \div 10), DigitChars[(n % 10) + 1])

\* zero fill on the left up to a minimum width: wider numbers are not cut
RECURSIVE ZeroPad(_, _)
ZeroPad(digits, width) ==
  IF Len(digits) >= width THEN digits ELSE ZeroPad(<<"0">> \o digits, width)

\* f"{n:04d}"
Format04d(n) == ZeroPad(DecimalDigits(n), 4)

\* last.split("-")[1]: the text between the first "-" and the next one (or the end)
RECURSIVE UpToDash(_)
UpToDash(s) ==
  IF s = <<>> \/ Head(s) = "-" THEN <<>> ELSE <<Head(s)>> \o UpToDash(Tail(s))

RECURSIVE AfterDash(_)
AfterDash(s) ==
  IF s = <<>> THEN <<>> ELSE IF Head(s) = "-" THEN Tail(s) ELSE AfterDash(Tail(s))

SplitDash1(s) == UpToDash(AfterDash(s))

\* int(digits) for a string of decimal digits
RECURSIVE ParseInt(_)
ParseInt(digits) ==
  IF digits = <<>> THEN 0
  ELSE 10 * ParseInt(SubSeq(digits, 1, Len(digits) - 1))
       + DigitValue[digits[Len(digits)]]

get_next_ticket_no_reuse_first(tickets) == TICKET_PREFIX \o Format04d(Len(tickets) + 1)

get_next_ticket_no(tickets) ==
  IF tickets = <<>> THEN TICKET_PREFIX \o Format04d(1)
  ELSE LET last == tickets[Len(tickets)].ticket_no
           number == ParseInt(SplitDash1(last))
       IN  TICKET_PREFIX \o Format04d(number + 1)

(***************************************************************************)
(* field_score, in tenths: 3 is 0.3, 7 is 0.7 and 10 is 1.0.               *)
(***************************************************************************)
\* whether the pattern \b fv \b matches desc with fv starting at position p:
\* \b holds where exactly one of the two neighbouring characters is a word
\* character, the ends of the text counting as non-word
MatchesAt(fv, desc, p) ==
  /\ p + Len(fv) - 1 <= Len(desc)
  /\ SubSeq(desc, p, p + Len(fv) - 1) = fv
  /\ LET before == IF p = 1 THEN FALSE ELSE IsWordChar(desc[p - 1])
         after == IF p + Len(fv) > Len(desc) THEN FALSE ELSE IsWordChar(desc[p + Len(fv)])
     IN  /\ before # IsWordChar(fv[1])
         /\ after # IsWordChar(fv[Len(fv)])

\* a search for fv anywhere in desc, inside a longer word as well
re_search_substring(fv, desc) ==
  \E p \in 1..Len(desc) :
    p + Len(fv) - 1 <= Len(desc) /\ SubSeq(desc, p, p + Len(fv) - 1) = fv

\* re.search(r"\b" + re.escape(fv) + r"\b", desc) for a non-empty fv
re_search_word(fv, desc) == \E p \in 1..Len(desc) : MatchesAt(fv, desc, p)

field_score(field_value, description) ==
  IF field_value = EMPTY \/ lower(field_value) = UNKNOWN THEN 3
  ELSE IF re_search_word(lower(field_value), lower(description)) THEN 10
  ELSE 7

(***************************************************************************)
(* compute_confidence.  conf is kept in tenths of a percent point: every   *)
(* value (3.3 * the sum of the three scores in tenths) is a multiple of    *)
(* 0.1 and none is within floating point error of a tie or a threshold.    *)
(***************************************************************************)
\* round(): to the nearest integer, a tie to the even one
round(tenths) ==
  LET q == tenths \div 10
      r == tenths % 10
  IN  IF r < 5 THEN q
      ELSE IF r > 5 THEN q + 1
      ELSE IF q % 2 = 0 THEN q ELSE q + 1

Min(a, b) == IF a <= b THEN a ELSE b

\* lines 58-63 with the two fields compared as they are, letter case included
Penalize_case_sensitive(conf, issue_type, affected_system) ==
  IF /\ issue_type # EMPTY
     /\ affected_system # EMPTY
     /\ issue_type = affected_system
  THEN Min(conf, 700) ELSE conf

\* lines 58-63: the cap applied when issue_type and affected_system are the same
Penalize(conf, issue_type, affected_system) ==
  IF /\ issue_type # EMPTY
     /\ affected_system # EMPTY
     /\ lower(issue_type) = lower(affected_system)
  THEN Min(conf, 700) ELSE conf

\* lines 66-69
Floor40(conf) == IF conf < 400 THEN 400 ELSE conf

Ceil95(conf) == IF conf > 950 THEN 950 ELSE conf

\* line 55, with the weights 0.33 as 33 hundredths
Weighted(s_issue, s_sev, s_sys) == s_issue * 33 + s_sev * 33 + s_sys * 33

compute_confidence_no_clamp(issue_type, severity, affected_system, description) ==
  round(Penalize(Weighted(field_score(issue_type, description),
                          field_score(severity, description),
                          field_score(affected_system, description)),
                 issue_type, affected_system))

compute_confidence(issue_type, severity, affected_system, description) ==
  round(Ceil95(Floor40(Penalize(Weighted(field_score(issue_type, description),
                                         field_score(severity, description),
                                         field_score(affected_system, description)),
                                issue_type, affected_system))))

(***************************************************************************)
(* Python dicts are functions; dict.get(key, default).                     *)
(***************************************************************************)
Get(d, key, default) == IF key \in DOMAIN d THEN d[key] ELSE default

EmptyDict == [k \in {} |-> EMPTY]

(***************************************************************************)
(* The external text-understanding service (ollama.chat).  A call either   *)
(* raises, or returns a message whose content is text without a JSON       *)
(* object in it, or text holding a JSON object.                            *)
(***************************************************************************)
Str_crash == <<"c","r","a","s","h">>

Str_outage == <<"o","u","t","a","g","e">>

Str_high == <<"h","i","g","h">>

Str_login == <<"l","o","g","i","n">>

\* a ticket description a user types: "Login crash, high"
DescLogin == <<"L","o","g","i","n"," ","c","r","a","s","h",","," ","h","i","g","h">>

Raises == [kind |-> "raise"]

Unparseable == [kind |-> "text"]

Json(d) == [kind |-> "json", dict |-> d]

Extraction(issue_type, severity, affected_system) ==
  Json([issue_type |-> issue_type, severity |-> severity,
        affected_system |-> affected_system])

\* what the Extraction Service may answer for a description: the call raises,
\* text without a JSON object, an object with the three keys (for DescLogin:
\* one field inferred, two verbatim, confidence 89), an object with a key
\* missing (two fields verbatim, confidence 76)
ExtractionResponses ==
  { Raises,
    Unparseable,
    Extraction(Str_outage, Str_high, Str_login),
    Json([issue_type |-> Str_crash, severity |-> Str_high]) }

\* what the Fix Generator may answer: a remediation sentence, or the call raises
FixResponses ==
  { Raises,
    [kind |-> "text", content |-> <<" ","r","e","b","o","o","t"," ">>] }

Call(service, response) == [service |-> service, response |-> response]

(***************************************************************************)
(* generate_proposed_fix and analyze_ticket.  Each returns                 *)
(* [raised, value, calls]: whether the ollama.chat call raised, the value  *)
(* returned otherwise, and the external calls made.                        *)
(***************************************************************************)
generate_proposed_fix(description, fix_response) ==
  [raised |-> fix_response.kind = "raise",
   value |-> IF fix_response.kind = "raise" THEN EMPTY ELSE strip(fix_response.content),
   calls |-> <<Call("fix", fix_response)>>]

AllUnknown ==
  [issue_type |-> UNKNOWN, severity |-> UNKNOWN, affected_system |-> UNKNOWN]

\* lines 128-138: the JSON object of the answer, or the all-unknown extraction
Extracted(response) == IF response.kind = "json" THEN response.dict ELSE AllUnknown

\* lines 141-146
Confidence(extracted, description) ==
  compute_confidence(Get(extracted, "issue_type", EMPTY),
                     Get(extracted, "severity", EMPTY),
                     Get(extracted, "affected_system", EMPTY),
                     description)

\* lines 149-157, generate_proposed_fix called on every ticket
Analysis_always_fix(extracted, conf, fix) ==
  [raised |-> fix.raised,
   value |-> ("confidence" :> conf) @@ ("propose_fix" :> fix.value) @@ extracted,
   calls |-> fix.calls]

\* lines 149-157; fix is the outcome generate_proposed_fix has if it is called
Analysis(extracted, conf, fix) ==
  IF conf >= 85
  THEN [raised |-> fix.raised,
        value |-> ("confidence" :> conf) @@ ("propose_fix" :> fix.value) @@ extracted,
        calls |-> fix.calls]
  ELSE [raised |-> FALSE,
        value |-> ("confidence" :> conf) @@ ("propose_fix" :> NONE) @@ extracted,
        calls |-> <<>>]

WithCall(call, r) == [raised |-> r.raised, value |-> r.value, calls |-> <<call>> \o r.calls]

analyze_ticket(description, response, fix_response) ==
  IF response.kind = "raise"
  THEN [raised |-> TRUE, value |-> EmptyDict, calls |-> <<Call("extract", response)>>]
  ELSE WithCall(Call("extract", response),
                Analysis(Extracted(response),
                         Confidence(Extracted(response), description),
                         generate_proposed_fix(description, fix_response)))

(***************************************************************************)
(* State.                                                                  *)
(***************************************************************************)
VARIABLES
  ticket_file,     \* tickets.json: the sequence of tickets (<<>> when absent)
  memory_file,     \* memory.json: the sequence of resolution memory entries
  pc,              \* per session: "top" before line 240 of a script run, "body" after it
  op,              \* the handler that ran last, with its inputs
  notices,         \* what the last step showed: st.error, st.success, an uncaught exception
  calls,           \* the ollama.chat calls the last step made, in order
  search_results,  \* st.session_state.search_results as the last Search handler set it
  assigned,        \* history: the ticket numbers Create Ticket handlers have assigned
  eval,            \* one call of a pure function: its arguments and its result
  local,           \* per session: the list a running pass loaded and has not saved yet
  invoked          \* history, where it is kept: the (service, ticket) pairs called once, and again

vars ==
  <<ticket_file, memory_file, pc, op, notices, calls, search_results, assigned, eval,
    local, invoked>>

\* browser sessions, each running the script top to bottom on every interaction
Sessions == {1, 2}

load_tickets == ticket_file

load_memory == memory_file

Notice(level, msg, arg) == [level |-> level, msg |-> msg, arg |-> arg]

UncaughtException == Notice("exception", "ollama.chat raised", EMPTY)

(***************************************************************************)
(* auto_process_open_tickets.  responses[i] and fix_responses[i] are what  *)
(* the service answers if called for tickets[i].  The result is            *)
(* [raised, tickets, changed, calls]; tickets is the local list, which the *)
(* caller saves only when the loop ran to its end and changed is set.      *)
(***************************************************************************)
TagCalls(ticket_no, cs) ==
  [k \in DOMAIN cs |->
     [ticket_no |-> ticket_no, service |-> cs[k].service, response |-> cs[k].response]]

Analysed_always_closed(t, analysis) ==
  [("ai_analysis" :> analysis) @@ t EXCEPT !.status = "closed"]

\* lines 168-173
Analysed(t, analysis) ==
  [("ai_analysis" :> analysis) @@ t EXCEPT
     !.status = IF analysis.confidence >= 85 THEN "closed" ELSE "need review"]

RECURSIVE ProcessFrom(_, _, _, _, _, _)
ProcessOpen(tickets, i, responses, fix_responses, cs, r) ==
  IF r.raised
  THEN [raised |-> TRUE, tickets |-> tickets, changed |-> FALSE,
        calls |-> cs \o TagCalls(tickets[i].ticket_no, r.calls)]
  ELSE ProcessFrom([tickets EXCEPT ![i] = Analysed(tickets[i], r.value)], i + 1,
                   responses, fix_responses, TRUE,
                   cs \o TagCalls(tickets[i].ticket_no, r.calls))

ProcessFrom(tickets, i, responses, fix_responses, changed, cs) ==
  IF i > Len(tickets)
  THEN [raised |-> FALSE, tickets |-> tickets, changed |-> changed, calls |-> cs]
  ELSE IF tickets[i].status = "open"
  THEN ProcessOpen(tickets, i, responses, fix_responses, cs,
                   analyze_ticket(tickets[i].description, responses[i], fix_responses[i]))
  ELSE ProcessFrom(tickets, i + 1, responses, fix_responses, changed, cs)

\* the status of every analysed ticket derived again from its confidence
Rederived(t) ==
  IF "ai_analysis" \in DOMAIN t
  THEN [t EXCEPT !.status = IF t.ai_analysis.confidence >= 85
                            THEN "closed" ELSE "need review"]
  ELSE t

RederiveAll(r) ==
  [raised |-> r.raised, tickets |-> [i \in DOMAIN r.tickets |-> Rederived(r.tickets[i])],
   changed |-> TRUE, calls |-> r.calls]

auto_process_open_tickets_rederive(tickets, responses, fix_responses) ==
  RederiveAll(ProcessFrom(tickets, 1, responses, fix_responses, FALSE, <<>>))

auto_process_open_tickets(tickets, responses, fix_responses) ==
  ProcessFrom(tickets, 1, responses, fix_responses, FALSE, <<>>)

\* the answers the service may give during one pass over tickets: one for each
\* open ticket, the only ones analyze_ticket is called for
Answers(tickets, possible) ==
  [{i \in DOMAIN tickets : tickets[i].status = "open"} -> possible]

\* the store after a pass: save_tickets runs only after the loop, when changed
AfterPass(tickets, r) == IF ~r.raised /\ r.changed THEN r.tickets ELSE tickets

(***************************************************************************)
(* parse_search_query and filter_tickets.                                  *)
(***************************************************************************)
\* Python's None, as a value that equals no string
PyNone == <<"<None>">>

parse_search_query(response) ==
  IF response.kind = "json" THEN response.dict ELSE [status |-> "none", severity |-> NONE]

\* lines 217-221 with a missing severity taken to match the facet
TicketMatches_missing_matches(t, status, severity) ==
  LET ai == Get(t, "ai_analysis", EmptyDict)
  IN  /\ ~(status # "none" /\ t.status # status)
      /\ ~(severity # NONE /\ Get(ai, "severity", severity) # severity)

TicketMatches(t, status, severity) ==
  LET ai == Get(t, "ai_analysis", EmptyDict)
  IN  /\ ~(status # "none" /\ t.status # status)
      /\ ~(severity # NONE /\ Get(ai, "severity", PyNone) # severity)

filter_tickets(tickets, status, severity) ==
  SelectSeq(tickets, LAMBDA t : TicketMatches(t, status, severity))

\* what the Query Parser may answer: the call raises, text without a JSON
\* object, an object with both facets, an object with a key missing, an object
\* whose status is the empty string of the prompt's template
ParserResponses ==
  { Raises,
    Unparseable,
    Json([status |-> "closed", severity |-> Str_high]),
    Json([status |-> "need review"]),
    Json([status |-> "", severity |-> NONE]) }

(***************************************************************************)
(* The Close Ticket Manually handler, lines 334-367: the loop over the     *)
(* loaded tickets.  The result is [tickets, memory, notices]: the two      *)
(* files after the handler and the messages it showed, in order.           *)
(***************************************************************************)
NotInReview == Notice("error", "This ticket is not in 'need review' state.", EMPTY)

NotFound == Notice("error", "Ticket not found.", EMPTY)

ManuallyClosed(ticket_to_close) ==
  Notice("success", "Ticket has been manually closed.", ticket_to_close)

SameTicketNo(ticket_no, ticket_to_close) ==
  upper(strip(ticket_no)) = upper(strip(ticket_to_close))

\* lines 339-364: the ticket at position i has the requested number
CloseMatched_any_state(tickets, memory, i, ticket_to_close, resolution_notes) ==
  [tickets |->
     [tickets EXCEPT ![i] =
        [("human_resolution" :> resolution_notes) @@ tickets[i] EXCEPT
           !.status = "closed"]],
   memory |->
     Append(memory, [ticket_no |-> ticket_to_close,
                     resolution |-> resolution_notes,
                     approved_by_human |-> TRUE]),
   notices |-> <<ManuallyClosed(ticket_to_close)>>]

CloseMatched_log_first(tickets, memory, i, ticket_to_close, resolution_notes) ==
  IF tickets[i].status # "need review"
  THEN [tickets |-> tickets,
        memory |-> Append(memory, [ticket_no |-> ticket_to_close,
                                   resolution |-> resolution_notes,
                                   approved_by_human |-> TRUE]),
        notices |-> <<NotInReview, NotFound>>]
  ELSE CloseMatched_any_state(tickets, memory, i, ticket_to_close, resolution_notes)

CloseMatched_drop_memory(tickets, memory, i, ticket_to_close, resolution_notes) ==
  IF tickets[i].status # "need review"
  THEN [tickets |-> tickets, memory |-> memory, notices |-> <<NotInReview, NotFound>>]
  ELSE CloseMatched_any_state(tickets, <<>>, i, ticket_to_close, resolution_notes)

CloseMatched(tickets, memory, i, ticket_to_close, resolution_notes) ==
  IF tickets[i].status # "need review"
  THEN \* break with found still False: line 366 reports as well
       [tickets |-> tickets, memory |-> memory, notices |-> <<NotInReview, NotFound>>]
  ELSE [tickets |->
          [tickets EXCEPT ![i] =
             [("human_resolution" :> resolution_notes) @@ tickets[i] EXCEPT
                !.status = "closed"]],
        memory |->
          Append(memory, [ticket_no |-> ticket_to_close,
                          resolution |-> resolution_notes,
                          approved_by_human |-> TRUE]),
        notices |-> <<ManuallyClosed(ticket_to_close)>>]

\* lines 337-367: the loop, which stops at the first ticket with the number
RECURSIVE CloseFrom(_, _, _, _, _)
CloseFrom(tickets, memory, i, ticket_to_close, resolution_notes) ==
  IF i > Len(tickets)
  THEN [tickets |-> tickets, memory |-> memory, notices |-> <<NotFound>>]
  ELSE IF SameTicketNo(tickets[i].ticket_no, ticket_to_close)
  THEN CloseMatched(tickets, memory, i, ticket_to_close, resolution_notes)
  ELSE CloseFrom(tickets, memory, i + 1, ticket_to_close, resolution_notes)

close_ticket_manually(tickets, memory, ticket_to_close, resolution_notes) ==
  CloseFrom(tickets, memory, 1, ticket_to_close, resolution_notes)

(***************************************************************************)
(* What users type.                                                        *)
(***************************************************************************)
Blank == <<" ">>

\* two spellings of a ticket number that the handler accepts as the same
Spellings(ticket_no) == {ticket_no, Blank \o lower(ticket_no) \o Blank}

DescriptionInputs == {Blank, DescLogin}

NotesInputs == {Blank, <<"o","k">>}

QueryInputs == {Blank, <<"h","i","g","h">>}

\* a blank field, a spelling of a stored ticket's number, or the number no
\* ticket has yet
TicketNoInputs(tickets) ==
  {Blank, get_next_ticket_no(tickets)}
    \cup UNION {Spellings(tickets[i].ticket_no) : i \in DOMAIN tickets}

Op(name, text, notes) == [name |-> name, text |-> text, notes |-> notes]

NoEval == [fn |-> "none"]

\* the history of external calls is not kept
NoHistory == [kept |-> FALSE]

\* the history of external calls before the first call
EmptyHistory == [kept |-> TRUE, once |-> {}, again |-> {}]

\* the (service, ticket) pairs of the calls cs, and those called twice in cs
CallPairs(cs) == {<<cs[k].service, cs[k].ticket_no>> : k \in DOMAIN cs}

CalledTwice(cs) ==
  {<<cs[k].service, cs[k].ticket_no>> : k \in
     {k \in DOMAIN cs : \E j \in DOMAIN cs :
        j # k /\ cs[j].service = cs[k].service /\ cs[j].ticket_no = cs[k].ticket_no}}

\* the history after the calls cs of one pass
Recorded(history, cs) ==
  IF ~history.kept THEN history
  ELSE [kept |-> TRUE,
        once |-> history.once \cup CallPairs(cs),
        again |-> history.again \cup (history.once \cap CallPairs(cs)) \cup CalledTwice(cs)]

\* no session is between the load and the save of a pass
NoLocal == [s \in Sessions |-> <<>>]

(***************************************************************************)
(* Initial state: no file exists, no script has run.                       *)
(***************************************************************************)
Init ==
  /\ ticket_file = <<>>
  /\ memory_file = <<>>
  /\ pc = [s \in Sessions |-> "top"]
  /\ op = Op("none", EMPTY, EMPTY)
  /\ notices = <<>>
  /\ calls = <<>>
  /\ search_results = <<>>
  /\ assigned = <<>>
  /\ local = NoLocal
  /\ invoked = NoHistory
  /\ eval = NoEval

(***************************************************************************)
(* Line 240: every script run starts with the automatic pass.  An          *)
(* exception ends the run there.                                           *)
(***************************************************************************)
TopPassDone(s, r) ==
  /\ ticket_file' = AfterPass(ticket_file, r)
  /\ pc' = IF r.raised THEN pc ELSE [pc EXCEPT ![s] = "body"]
  /\ notices' = IF r.raised THEN <<UncaughtException>> ELSE <<>>
  /\ calls' = r.calls
  /\ invoked' = Recorded(invoked, r.calls)

TopPass(s) ==
  /\ pc[s] = "top"
  /\ \E responses \in Answers(load_tickets, ExtractionResponses),
        fix_responses \in Answers(load_tickets, FixResponses) :
       TopPassDone(s, auto_process_open_tickets(load_tickets, responses, fix_responses))
  /\ op' = Op("pass", EMPTY, EMPTY)
  /\ search_results' = <<>>
  /\ UNCHANGED <<memory_file, assigned, eval, local>>

\* a run in which no button was pressed
EndRun(s) ==
  /\ pc[s] = "body"
  /\ pc' = [pc EXCEPT ![s] = "top"]
  /\ op' = Op("none", EMPTY, EMPTY)
  /\ notices' = <<>>
  /\ calls' = <<>>
  /\ search_results' = <<>>
  /\ UNCHANGED <<ticket_file, memory_file, assigned, eval, local, invoked>>

(***************************************************************************)
(* Create Ticket, lines 245-263.                                           *)
(***************************************************************************)
NewTicket(new_no, user_input) ==
  [ticket_no |-> new_no, description |-> user_input, status |-> "open"]

\* lines 261-263: saved is the store line 259 wrote, r the outcome of the pass
CreateDone(saved, r) ==
  /\ ticket_file' = AfterPass(saved, r)
  /\ assigned' = Append(assigned, saved[Len(saved)].ticket_no)
  /\ calls' = r.calls
  /\ invoked' = Recorded(invoked, r.calls)
  /\ notices' = IF r.raised THEN <<UncaughtException>>
                ELSE <<Notice("success", "Ticket created and processed!",
                              saved[Len(saved)].ticket_no)>>

CreateAndProcess(saved) ==
  \E responses \in Answers(saved, ExtractionResponses),
     fix_responses \in Answers(saved, FixResponses) :
    CreateDone(saved, auto_process_open_tickets(saved, responses, fix_responses))

CreateTicket(s) ==
  /\ pc[s] = "body"
  /\ pc' = [pc EXCEPT ![s] = "top"]
  /\ search_results' = <<>>
  /\ UNCHANGED <<memory_file, eval, local>>
  /\ \E user_input \in DescriptionInputs :
       /\ op' = Op("create", user_input, EMPTY)
       /\ \/ /\ strip(user_input) = EMPTY
             /\ notices' = <<Notice("error", "Please enter a ticket description.", EMPTY)>>
             /\ calls' = <<>>
             /\ UNCHANGED <<ticket_file, assigned, invoked>>
          \/ /\ strip(user_input) # EMPTY
             /\ Len(assigned) < MaxTickets
             /\ CreateAndProcess(Append(load_tickets,
                                        NewTicket(get_next_ticket_no(load_tickets),
                                                  user_input)))

(***************************************************************************)
(* Search, lines 278-291.                                                  *)
(***************************************************************************)
\* lines 285-291; filters["status"] and filters["severity"] raise KeyError
\* when the parsed object lacks the key
SearchDone(response, filters) ==
  /\ calls' = <<[ticket_no |-> EMPTY, service |-> "parse", response |-> response]>>
  /\ notices' = IF response.kind = "raise" THEN <<UncaughtException>>
                ELSE IF ~({"status", "severity"} \subseteq DOMAIN filters)
                THEN <<Notice("exception", "KeyError", EMPTY)>>
                ELSE <<>>
  /\ search_results' =
       IF response.kind # "raise" /\ {"status", "severity"} \subseteq DOMAIN filters
       THEN filter_tickets(load_tickets, filters.status, filters.severity)
       ELSE <<>>

Search(s) ==
  /\ pc[s] = "body"
  /\ pc' = [pc EXCEPT ![s] = "top"]
  /\ UNCHANGED <<ticket_file, memory_file, assigned, eval, local, invoked>>
  /\ \E search_text \in QueryInputs :
       /\ op' = Op("search", search_text, EMPTY)
       /\ \/ /\ strip(search_text) = EMPTY
             /\ notices' = <<Notice("error", "Please enter a query.", EMPTY)>>
             /\ calls' = <<>>
             /\ search_results' = <<>>
          \/ /\ strip(search_text) # EMPTY
             /\ \E response \in ParserResponses :
                  SearchDone(response, parse_search_query(response))

(***************************************************************************)
(* Close Ticket Manually, lines 328-367.                                   *)
(***************************************************************************)
CloseDone(r) ==
  /\ ticket_file' = r.tickets
  /\ memory_file' = r.memory
  /\ notices' = r.notices

CloseTicketManually(s) ==
  /\ pc[s] = "body"
  /\ pc' = [pc EXCEPT ![s] = "top"]
  /\ calls' = <<>>
  /\ search_results' = <<>>
  /\ UNCHANGED <<assigned, eval, local, invoked>>
  /\ \E ticket_to_close \in TicketNoInputs(ticket_file), resolution_notes \in NotesInputs :
       /\ op' = Op("close", ticket_to_close, resolution_notes)
       /\ \/ /\ strip(ticket_to_close) = EMPTY
             /\ notices' = <<Notice("error", "Please enter a ticket number.", EMPTY)>>
             /\ UNCHANGED <<ticket_file, memory_file>>
          \/ /\ strip(ticket_to_close) # EMPTY
             /\ strip(resolution_notes) = EMPTY
             /\ notices' = <<Notice("error", "Please enter resolution notes.", EMPTY)>>
             /\ UNCHANGED <<ticket_file, memory_file>>
          \/ /\ strip(ticket_to_close) # EMPTY
             /\ strip(resolution_notes) # EMPTY
             /\ CloseDone(close_ticket_manually(load_tickets, load_memory,
                                                ticket_to_close, resolution_notes))

Next ==
  \E s \in Sessions :
    \/ TopPass(s)
    \/ EndRun(s)
    \/ CreateTicket(s)
    \/ Search(s)
    \/ CloseTicketManually(s)

Spec == Init /\ [][Next]_vars

(***************************************************************************)
(* tickets.json edited from outside the program: a ticket is removed.      *)
(***************************************************************************)
Without(tickets, i) == SubSeq(tickets, 1, i - 1) \o SubSeq(tickets, i + 1, Len(tickets))

ExternalRemove ==
  /\ \E i \in DOMAIN ticket_file :
       /\ ticket_file' = Without(ticket_file, i)
       /\ op' = Op("external", ticket_file[i].ticket_no, EMPTY)
  /\ notices' = <<>>
  /\ calls' = <<>>
  /\ search_results' = <<>>
  /\ UNCHANGED <<memory_file, pc, assigned, eval, local, invoked>>

NextExternal == Next \/ ExternalRemove

SpecExternal == Init /\ [][NextExternal]_vars

(***************************************************************************)
(* Ticket numbering late in a store's life.  get_next_ticket_no reads the  *)
(* last ticket only, so a store that CreatedBefore creations have filled   *)
(* is kept as its last ticket: the tickets before it are closed, no pass   *)
(* changes them, and they are left out.                                    *)
(***************************************************************************)
CreatedBefore == 9999

LastCreatedBefore ==
  Analysed(NewTicket(TICKET_PREFIX \o Format04d(CreatedBefore), DescLogin),
           analyze_ticket(DescLogin, Extraction(Str_outage, Str_high, Str_login),
                          [kind |-> "text", content |-> <<"r","e","b","o","o","t">>]).value)

InitNumbering ==
  /\ ticket_file \in {<<>>, <<LastCreatedBefore>>}
  /\ assigned = [i \in DOMAIN ticket_file |-> ticket_file[i].ticket_no]
  /\ local = NoLocal
  /\ invoked = NoHistory
  /\ memory_file = <<>>
  /\ pc = [s \in Sessions |-> "top"]
  /\ op = Op("none", EMPTY, EMPTY)
  /\ notices = <<>>
  /\ calls = <<>>
  /\ search_results = <<>>
  /\ eval = NoEval

SpecNumbering == InitNumbering /\ [][Next]_vars

(***************************************************************************)
(* compute_confidence as a pure function: one call on arguments drawn from *)
(* FieldValues and Descriptions.                                           *)
(***************************************************************************)
FieldValues ==
  { EMPTY,
    UNKNOWN,
    <<"U","n","k","n","o","w","n">>,
    Str_crash,
    Str_outage,
    Str_high,
    Str_login,
    <<"L","O","G","I","N">> }

\* "", "Login crash, high" and "Login crashes"
Descriptions ==
  { EMPTY,
    DescLogin,
    <<"L","o","g","i","n"," ","c","r","a","s","h","e","s">> }

InitConfidence ==
  /\ ticket_file = <<>>
  /\ memory_file = <<>>
  /\ pc = [s \in Sessions |-> "top"]
  /\ op = Op("none", EMPTY, EMPTY)
  /\ notices = <<>>
  /\ calls = <<>>
  /\ search_results = <<>>
  /\ assigned = <<>>
  /\ local = NoLocal
  /\ invoked = NoHistory
  /\ \E issue_type \in FieldValues, severity \in FieldValues,
        affected_system \in FieldValues, description \in Descriptions :
       eval = [fn |-> "compute_confidence", issue_type |-> issue_type,
               severity |-> severity, affected_system |-> affected_system,
               description |-> description, returned |-> FALSE, confidence |-> 0]

ComputeConfidence ==
  /\ eval.fn = "compute_confidence"
  /\ ~eval.returned
  /\ eval' = [eval EXCEPT
                !.returned = TRUE,
                !.confidence = compute_confidence(eval.issue_type, eval.severity,
                                                  eval.affected_system, eval.description)]
  /\ UNCHANGED <<ticket_file, memory_file, pc, op, notices, calls, search_results,
                 assigned, local, invoked>>

SpecConfidence == InitConfidence /\ [][ComputeConfidence]_vars

(***************************************************************************)
(* field_score as a pure function: one call on a field value drawn from    *)
(* ScoreValues and a source text drawn from ScoreTexts.                    *)
(***************************************************************************)
Str_cpp == <<"c","+","+">>

\* "", 'unknown' in three letter cases, values found and not found in the
\* texts, a value ending in characters that are not word characters, a blank
ScoreValues ==
  { EMPTY,
    UNKNOWN,
    <<"U","n","k","n","o","w","n">>,
    <<"U","N","K","N","O","W","N">>,
    Str_crash,
    <<"C","R","A","S","H">>,
    Str_outage,
    Str_high,
    Str_login,
    <<"l","o","g">>,
    Str_cpp,
    Blank }

\* "", "Login crash, high", "Login crashes", "C++ crash", "crash in c++", "highlogin"
ScoreTexts ==
  { EMPTY,
    DescLogin,
    <<"L","o","g","i","n"," ","c","r","a","s","h","e","s">>,
    <<"C","+","+"," ","c","r","a","s","h">>,
    <<"c","r","a","s","h"," ","i","n"," ","c","+","+">>,
    <<"h","i","g","h","l","o","g","i","n">> }

InitFieldScore ==
  /\ ticket_file = <<>>
  /\ memory_file = <<>>
  /\ pc = [s \in Sessions |-> "top"]
  /\ op = Op("none", EMPTY, EMPTY)
  /\ notices = <<>>
  /\ calls = <<>>
  /\ search_results = <<>>
  /\ assigned = <<>>
  /\ local = NoLocal
  /\ invoked = NoHistory
  /\ \E field_value \in ScoreValues, description \in ScoreTexts :
       eval = [fn |-> "field_score", field_value |-> field_value,
               description |-> description, returned |-> FALSE, score |-> 0]

FieldScore ==
  /\ eval.fn = "field_score"
  /\ ~eval.returned
  /\ eval' = [eval EXCEPT !.returned = TRUE,
                          !.score = field_score(eval.field_value, eval.description)]
  /\ UNCHANGED <<ticket_file, memory_file, pc, op, notices, calls, search_results,
                 assigned, local, invoked>>

SpecFieldScore == InitFieldScore /\ [][FieldScore]_vars

(***************************************************************************)
(* The lifecycle of a ticket whose description is "Server crashes on       *)
(* login, critical issue with auth system": Create Ticket with that        *)
(* description, the Extraction Service answering issue_type "crash",       *)
(* severity "critical", affected_system "auth system" (or the call         *)
(* raising), among the other handlers of the script.                       *)
(***************************************************************************)
Str_critical == <<"c","r","i","t","i","c","a","l">>

Str_auth_system == <<"a","u","t","h"," ","s","y","s","t","e","m">>

DescServer ==
  <<"S","e","r","v","e","r"," ","c","r","a","s","h","e","s"," ","o","n"," ",
    "l","o","g","i","n",","," ","c","r","i","t","i","c","a","l"," ",
    "i","s","s","u","e"," ","w","i","t","h"," ","a","u","t","h"," ",
    "s","y","s","t","e","m">>

ServerExtraction == Extraction(Str_crash, Str_critical, Str_auth_system)

LifecycleResponses == {Raises, ServerExtraction}

\* lines 258-263 for the store line 259 wrote
LifecycleProcess(saved) ==
  \E responses \in Answers(saved, LifecycleResponses),
     fix_responses \in Answers(saved, FixResponses) :
    CreateDone(saved, auto_process_open_tickets(saved, responses, fix_responses))

\* lines 245-263 with the description typed in
LifecycleCreate(s) ==
  /\ pc[s] = "body"
  /\ pc' = [pc EXCEPT ![s] = "top"]
  /\ search_results' = <<>>
  /\ UNCHANGED <<memory_file, eval, local>>
  /\ op' = Op("create", DescServer, EMPTY)
  /\ Len(assigned) < MaxTickets
  /\ LifecycleProcess(Append(load_tickets,
                             NewTicket(get_next_ticket_no(load_tickets), DescServer)))

\* one session runs the script
NextLifecycle ==
  \/ TopPass(1)
  \/ EndRun(1)
  \/ LifecycleCreate(1)
  \/ Search(1)
  \/ CloseTicketManually(1)

SpecLifecycle == Init /\ [][NextLifecycle]_vars

(***************************************************************************)
(* filter_tickets as a pure function: one call on a list of at most        *)
(* FilterLen tickets, each in one of the forms the handlers leave a ticket *)
(* in, and two facets.                                                     *)
(***************************************************************************)
FilterLen == 2

FixText == [kind |-> "text", content |-> <<"r","e","b","o","o","t">>]

\* the ticket at position i of the list after a pass whose Extraction Service
\* answered response
Processed(i, response) ==
  Analysed(NewTicket(TICKET_PREFIX \o Format04d(i), DescLogin),
           analyze_ticket(DescLogin, response, FixText).value)

\* a ticket left open by a pass that raised; tickets in need review whose
\* analysis holds severity 'high', severity 'unknown', no severity; a ticket
\* closed by the pass; a ticket closed by hand
TicketForms(i) ==
  { NewTicket(TICKET_PREFIX \o Format04d(i), DescLogin),
    Processed(i, Json([issue_type |-> Str_crash, severity |-> Str_high])),
    Processed(i, Unparseable),
    Processed(i, Json([issue_type |-> Str_crash])),
    Processed(i, Extraction(Str_outage, Str_high, Str_login)),
    [("human_resolution" :> <<"o","k">>)
       @@ Processed(i, Json([issue_type |-> Str_crash, severity |-> Str_high]))
     EXCEPT !.status = "closed"] }

TicketLists ==
  UNION {{tickets \in [1..n -> UNION {TicketForms(i) : i \in 1..n}] :
            \A i \in 1..n : tickets[i] \in TicketForms(i)} : n \in 0..FilterLen}

StatusFacets == {"none", "open", "need review", "closed"}

SeverityFacets == {NONE, Str_high, UNKNOWN}

InitFilter ==
  /\ ticket_file = <<>>
  /\ memory_file = <<>>
  /\ pc = [s \in Sessions |-> "top"]
  /\ op = Op("none", EMPTY, EMPTY)
  /\ notices = <<>>
  /\ calls = <<>>
  /\ search_results = <<>>
  /\ assigned = <<>>
  /\ local = NoLocal
  /\ invoked = NoHistory
  /\ \E tickets \in TicketLists, status \in StatusFacets, severity \in SeverityFacets :
       eval = [fn |-> "filter_tickets", tickets |-> tickets, status |-> status,
               severity |-> severity, returned |-> FALSE, results |-> <<>>]

FilterTickets ==
  /\ eval.fn = "filter_tickets"
  /\ ~eval.returned
  /\ eval' = [eval EXCEPT !.returned = TRUE,
                          !.results = filter_tickets(eval.tickets, eval.status,
                                                     eval.severity)]
  /\ UNCHANGED <<ticket_file, memory_file, pc, op, notices, calls, search_results,
                 assigned, local, invoked>>

SpecFilter == InitFilter /\ [][FilterTickets]_vars

(***************************************************************************)
(* Two sessions whose script runs overlap.  Streamlit runs each session's  *)
(* script in a thread of its own and the code takes no lock, so a pass of  *)
(* one session, which loads the tickets (line 162), waits for the external *)
(* service once or twice per open ticket and saves its list afterwards     *)
(* (line 178), can have handlers of the other session run in between.      *)
(* local[s] is the list the pass of session s loaded.  pc[s] is "top pass" *)
(* during the pass of line 240, "created" after line 259 and "create pass" *)
(* during the pass of line 261.                                            *)
(***************************************************************************)
\* what the Extraction Service answers in these runs: text without a JSON
\* object (confidence 40), or an object with the three keys (confidence 89)
InterleavedResponses == {Unparseable, Extraction(Str_outage, Str_high, Str_login)}

\* line 162
PassLoad(s) ==
  /\ pc[s] \in {"top", "created"}
  /\ pc' = [pc EXCEPT ![s] = IF pc[s] = "top" THEN "top pass" ELSE "create pass"]
  /\ local' = [local EXCEPT ![s] = load_tickets]
  /\ op' = Op("load", EMPTY, EMPTY)
  /\ notices' = <<>>
  /\ calls' = <<>>
  /\ search_results' = <<>>
  /\ UNCHANGED <<ticket_file, memory_file, assigned, eval, invoked>>

\* lines 163-178: the loop over the loaded list, and save_tickets of that list
PassRunDone(s, r) ==
  /\ ticket_file' = AfterPass(ticket_file, r)
  /\ pc' = [pc EXCEPT ![s] = IF r.raised \/ pc[s] = "create pass" THEN "top" ELSE "body"]
  /\ notices' = IF r.raised THEN <<UncaughtException>> ELSE <<>>
  /\ calls' = r.calls
  /\ invoked' = Recorded(invoked, r.calls)

PassRun(s) ==
  /\ pc[s] \in {"top pass", "create pass"}
  /\ \E responses \in Answers(local[s], InterleavedResponses),
        fix_responses \in Answers(local[s], {FixText}) :
       PassRunDone(s, auto_process_open_tickets(local[s], responses, fix_responses))
  /\ local' = [local EXCEPT ![s] = <<>>]
  /\ op' = Op("pass", EMPTY, EMPTY)
  /\ search_results' = <<>>
  /\ UNCHANGED <<memory_file, assigned, eval>>

\* lines 249-259
CreateSave(s) ==
  /\ pc[s] = "body"
  /\ Len(assigned) < MaxTickets
  /\ pc' = [pc EXCEPT ![s] = "created"]
  /\ ticket_file' = Append(load_tickets,
                           NewTicket(get_next_ticket_no(load_tickets), DescLogin))
  /\ assigned' = Append(assigned, get_next_ticket_no(load_tickets))
  /\ op' = Op("create", DescLogin, EMPTY)
  /\ notices' = <<>>
  /\ calls' = <<>>
  /\ search_results' = <<>>
  /\ UNCHANGED <<memory_file, eval, local, invoked>>

NextInterleaved ==
  \E s \in Sessions :
    \/ PassLoad(s)
    \/ PassRun(s)
    \/ CreateSave(s)
    \/ EndRun(s)
    \/ CloseTicketManually(s)

SpecInterleaved == Init /\ [][NextInterleaved]_vars

(***************************************************************************)
(* The script with the history of its external calls kept.                 *)
(***************************************************************************)
InitHistory ==
  /\ ticket_file = <<>>
  /\ memory_file = <<>>
  /\ pc = [s \in Sessions |-> "top"]
  /\ op = Op("none", EMPTY, EMPTY)
  /\ notices = <<>>
  /\ calls = <<>>
  /\ search_results = <<>>
  /\ assigned = <<>>
  /\ eval = NoEval
  /\ local = NoLocal
  /\ invoked = EmptyHistory

SpecHistory == InitHistory /\ [][Next]_vars

(***************************************************************************)
(* Vocabulary of the properties.                                           *)
(***************************************************************************)
HasAnalysis(t) == "ai_analysis" \in DOMAIN t

HasResolution(t) == "human_resolution" \in DOMAIN t

\* the step ran the automatic pass: line 240, or line 261 inside Create Ticket
RanPass(o) == o.name = "pass" \/ (o.name = "create" /\ strip(o.text) # EMPTY)

PassRan == RanPass(op')

Raised(ns) == \E k \in DOMAIN ns : ns[k].level = "exception"

\* the tickets the step's pass found open: those open before the step and
\* the ticket the step created
FoundOpen(i) == i \notin DOMAIN ticket_file \/ ticket_file[i].status = "open"

CallsFor(cs, ticket_no, service) ==
  {k \in DOMAIN cs : cs[k].ticket_no = ticket_no /\ cs[k].service = service}

\* the step ran the Close Ticket Manually loop (both inputs were given)
CloseAttempt ==
  /\ op'.name = "close"
  /\ strip(op'.text) # EMPTY
  /\ strip(op'.notes) # EMPTY

\* the positions of the tickets the typed number names
Named(tickets, ticket_to_close) ==
  {i \in DOMAIN tickets : SameTicketNo(tickets[i].ticket_no, ticket_to_close)}

SameResolution(t, u) ==
  /\ t.status = u.status
  /\ HasAnalysis(t) = HasAnalysis(u)
  /\ HasAnalysis(t) => t.ai_analysis = u.ai_analysis
  /\ HasResolution(t) = HasResolution(u)
  /\ HasResolution(t) => t.human_resolution = u.human_resolution

(***************************************************************************)
(* C1.  A closed ticket was closed by the automatic pass with a confidence *)
(* of at least 85, or by a manual closure that found it in need review: in *)
(* every state each closed ticket carries the one or the other, every step *)
(* that closes a ticket is one of the two, and no manual closure closes an *)
(* open ticket.                                                            *)
(***************************************************************************)
ClosedLegitimately(t) ==
  \/ /\ HasAnalysis(t)
     /\ t.ai_analysis.confidence >= 85
     /\ ~HasResolution(t)
  \/ /\ HasResolution(t)
     /\ \E k \in DOMAIN memory_file :
          /\ SameTicketNo(t.ticket_no, memory_file[k].ticket_no)
          /\ memory_file[k].resolution = t.human_resolution

C1_ClosedInv ==
  \A i \in DOMAIN ticket_file :
    ticket_file[i].status = "closed" => ClosedLegitimately(ticket_file[i])

C1_ClosingStep ==
  \A i \in DOMAIN ticket_file' :
    (ticket_file'[i].status = "closed" /\ (FoundOpen(i) \/ ticket_file[i].status # "closed"))
      => \/ /\ PassRan
            /\ FoundOpen(i)
            /\ ticket_file'[i].ai_analysis.confidence >= 85
         \/ /\ op'.name = "close"
            /\ i \in DOMAIN ticket_file
            /\ ticket_file[i].status = "need review"
            /\ ticket_file'[i].human_resolution = op'.notes

\* C1: every closed ticket was closed by the pass with confidence >= 85 or by a
\* manual closure that found it in need review; none goes from open to closed
\* by hand
C1_ClosedOnlyByPolicy == []C1_ClosedInv /\ [][C1_ClosingStep]_vars

\* one ticket closed by the pass and one closed by hand
C1_Witness ==
  \E i, j \in DOMAIN ticket_file :
    /\ ticket_file[i].status = "closed" /\ ~HasResolution(ticket_file[i])
    /\ ticket_file[j].status = "closed" /\ HasResolution(ticket_file[j])

(***************************************************************************)
(* C2.  closed is absorbing: no step changes the status, the ai_analysis   *)
(* or the human_resolution of a ticket that is closed.                     *)
(***************************************************************************)
C2_ClosedStays ==
  \A i \in DOMAIN ticket_file :
    ticket_file[i].status = "closed"
      => /\ i \in DOMAIN ticket_file'
         /\ SameResolution(ticket_file[i], ticket_file'[i])

\* C2: no step changes the status, ai_analysis or human_resolution of a closed
\* ticket
C2_ClosedAbsorbing == [][C2_ClosedStays]_vars

\* a manual closure was attempted on a ticket that was already closed
C2_Witness ==
  /\ op.name = "close"
  /\ \E i \in Named(ticket_file, op.text) :
       /\ ticket_file[i].status = "closed"
       /\ ~HasResolution(ticket_file[i])
  /\ NotInReview \in Range(notices)

(***************************************************************************)
(* C3.  After a pass that ran to its end, every ticket the pass found open *)
(* is closed with the Fix Generator's answer (stripped, and not 'none') as *)
(* propose_fix when its confidence is at least 85, and is in need review   *)
(* with propose_fix 'none' and no Fix Generator call when its confidence   *)
(* is at most 84.                                                          *)
(***************************************************************************)
C3_Handled(t, cs) ==
  /\ HasAnalysis(t)
  /\ Cardinality(CallsFor(cs, t.ticket_no, "extract")) = 1
  /\ t.ai_analysis.confidence >= 85
       => /\ t.status = "closed"
          /\ t.ai_analysis.propose_fix # NONE
          /\ Cardinality(CallsFor(cs, t.ticket_no, "fix")) = 1
          /\ \A k \in CallsFor(cs, t.ticket_no, "fix") :
               t.ai_analysis.propose_fix = strip(cs[k].response.content)
  /\ t.ai_analysis.confidence <= 84
       => /\ t.status = "need review"
          /\ t.ai_analysis.propose_fix = NONE
          /\ CallsFor(cs, t.ticket_no, "fix") = {}

C3_PassStep ==
  (PassRan /\ ~Raised(notices'))
    => \A i \in DOMAIN ticket_file' : FoundOpen(i) => C3_Handled(ticket_file'[i], calls')

C4_ClosedBy(t, u, notes) ==
  /\ u.status = "closed"
  /\ HasResolution(u) /\ u.human_resolution = notes
  /\ u.ticket_no = t.ticket_no
  /\ u.description = t.description
  /\ HasAnalysis(u) = HasAnalysis(t)
  /\ HasAnalysis(t) => u.ai_analysis = t.ai_analysis

C4_Effect(i) ==
  /\ DOMAIN ticket_file' = DOMAIN ticket_file
  /\ C4_ClosedBy(ticket_file[i], ticket_file'[i], op'.notes)
  /\ \A j \in DOMAIN ticket_file : j # i => ticket_file'[j] = ticket_file[j]
  /\ Len(memory_file') = Len(memory_file) + 1
  /\ SubSeq(memory_file', 1, Len(memory_file)) = memory_file
  /\ memory_file'[Len(memory_file')].resolution = op'.notes
  /\ memory_file'[Len(memory_file')].approved_by_human = TRUE

C4_CloseStep ==
  CloseAttempt =>
    /\ (\E i \in Named(ticket_file, op'.text) : ticket_file[i].status = "need review")
         => notices' = <<ManuallyClosed(op'.text)>>
    /\ notices' = <<ManuallyClosed(op'.text)>>
         => \E i \in Named(ticket_file, op'.text) :
              ticket_file[i].status = "need review" /\ C4_Effect(i)

\* C4: a successful manual closure closes the named ticket with the notes,
\* leaves the other tickets alone and appends one memory entry
C4_ManualClosure == [][C4_CloseStep]_vars

\* the second of two manual closures: another ticket and an older memory entry
\* were there to be left alone
C4_Witness ==
  /\ op.name = "close"
  /\ notices = <<ManuallyClosed(op.text)>>
  /\ Len(ticket_file) >= 2
  /\ Len(memory_file) >= 2
  /\ memory_file[Len(memory_file)].ticket_no = op.text

(***************************************************************************)
(* C5.  A manual closure attempt whose ticket number names a ticket that   *)
(* is closed or open reports that the ticket is not in need review and     *)
(* leaves the ticket store and the resolution memory as they were.         *)
(***************************************************************************)
C5_RejectStep ==
  (CloseAttempt /\ \E i \in Named(ticket_file, op'.text) :
                     ticket_file[i].status \in {"closed", "open"})
    => /\ NotInReview \in Range(notices')
       /\ ticket_file' = ticket_file
       /\ memory_file' = memory_file

\* C5: a manual closure attempt on a closed or open ticket reports the
\* state-precondition failure and changes neither file
C5_RejectedClosure == [][C5_RejectStep]_vars

\* a closure attempted on a ticket that is open: its creating run was ended
\* by an exception of the pass, and this session had passed line 240 before
C5_Witness ==
  /\ op.name = "close"
  /\ NotInReview \in Range(notices)
  /\ \E i \in Named(ticket_file, op.text) : ticket_file[i].status = "open"

(***************************************************************************)
(* C6.  The original statement: 'Ticket not found.' is reported exactly    *)
(* when no ticket has the requested number, and then nothing is changed.   *)
(***************************************************************************)
C6_NotFoundStep ==
  CloseAttempt =>
    /\ NotFound \in Range(notices') <=> Named(ticket_file, op'.text) = {}
    /\ Named(ticket_file, op'.text) = {}
         => ticket_file' = ticket_file /\ memory_file' = memory_file

\* C6 (original statement): 'Ticket not found.' is reported exactly when no
\* ticket has the requested number, and then neither file is changed
C6_NotFoundExactly == [][C6_NotFoundStep]_vars

(***************************************************************************)
(* C7.  A pass changes no ticket that is closed or in need review and      *)
(* makes no external call for it; a pass that ran to its end leaves no     *)
(* ticket open; a pass over a store with no open ticket leaves the store   *)
(* as it was and makes no external call.                                   *)
(***************************************************************************)
C7_PassStep ==
  PassRan =>
    /\ \A i \in DOMAIN ticket_file :
         ticket_file[i].status # "open"
           => /\ ticket_file'[i] = ticket_file[i]
              /\ \A k \in DOMAIN calls' : calls'[k].ticket_no # ticket_file[i].ticket_no
    /\ ~Raised(notices') => \A i \in DOMAIN ticket_file' : ticket_file'[i].status # "open"
    /\ (op'.name = "pass" /\ \A i \in DOMAIN ticket_file : ticket_file[i].status # "open")
         => ticket_file' = ticket_file /\ calls' = <<>>

\* C7: the pass changes open tickets only and calls the service for them only;
\* a pass right after a completed pass changes nothing and calls nothing
C7_PassIdempotent == [][C7_PassStep]_vars

\* a pass that found a closed ticket and a ticket in need review, and no open one
C7_Witness ==
  /\ op.name = "pass"
  /\ calls = <<>>
  /\ \E i, j \in DOMAIN ticket_file :
       ticket_file[i].status = "closed" /\ ticket_file[j].status = "need review"

(***************************************************************************)
(* C8.  Ticket numbering.  TicketDigits are the characters after           *)
(* "TICKET-"; TicketNumber is the integer they spell.                      *)
(***************************************************************************)
TicketDigits(ticket_no) == SubSeq(ticket_no, Len(TICKET_PREFIX) + 1, Len(ticket_no))

TicketNumber(ticket_no) == ParseInt(TicketDigits(ticket_no))

\* "TICKET-" and the decimal digits of n, zero filled on the left to 4 digits
\* and no further
IsNumbered(ticket_no, n) ==
  /\ Len(ticket_no) >= Len(TICKET_PREFIX) + 4
  /\ SubSeq(ticket_no, 1, Len(TICKET_PREFIX)) = TICKET_PREFIX
  /\ \A k \in DOMAIN TicketDigits(ticket_no) : TicketDigits(ticket_no)[k] \in Range(DigitChars)
  /\ TicketNumber(ticket_no) = n
  /\ Len(TicketDigits(ticket_no)) > 4 => TicketDigits(ticket_no)[1] # "0"

\* the step created a ticket
Created ==
  /\ op'.name = "create"
  /\ Len(ticket_file') = Len(ticket_file) + 1

NextInSequence ==
  Created =>
    IF ticket_file = <<>>
    THEN ticket_file'[1].ticket_no = <<"T","I","C","K","E","T","-","0","0","0","1">>
    ELSE IsNumbered(ticket_file'[Len(ticket_file')].ticket_no,
                    TicketNumber(ticket_file[Len(ticket_file)].ticket_no) + 1)

IncreasingNumbers ==
  \A i, j \in DOMAIN ticket_file :
    i < j => /\ TicketNumber(ticket_file[i].ticket_no) < TicketNumber(ticket_file[j].ticket_no)
             /\ ticket_file[i].ticket_no # ticket_file[j].ticket_no

FourDigits == \A i \in DOMAIN ticket_file : Len(TicketDigits(ticket_file[i].ticket_no)) = 4

C9_NeverReused ==
  \A i, j \in DOMAIN assigned : i # j => assigned[i] # assigned[j]

(***************************************************************************)
(* C10.  compute_confidence returns an integer from 40 to 95, whatever the *)
(* three field values and the description are.                             *)
(***************************************************************************)
\* C10: compute_confidence returns an integer in [40, 95]
C10_ConfidenceRange == eval.returned => eval.confidence \in 40..95

\* a call whose weighted sum, 29.7, lies below the floor
C10_Witness ==
  /\ eval.returned
  /\ eval.issue_type = EMPTY
  /\ eval.severity = UNKNOWN
  /\ eval.affected_system = <<"U","n","k","n","o","w","n">>
  /\ eval.confidence = 40

(***************************************************************************)
(* C11.  The original statement: compute_confidence equals the reference   *)
(* value raw = (s_issue + s_sev + s_sys) / 3 * 100, capped at 70 when      *)
(* issue_type equals affected_system, clamped to [40, 95] and rounded.     *)
(* The reference is kept in thirds of a percent point, where it is exact:  *)
(* three scores in tenths sum to raw * 3 / 10.                             *)
(***************************************************************************)
ReferenceRaw(s_issue, s_sev, s_sys) == (s_issue + s_sev + s_sys) * 10

ReferenceCap(thirds, issue_type, affected_system) ==
  IF /\ issue_type # EMPTY
     /\ affected_system # EMPTY
     /\ lower(issue_type) = lower(affected_system)
  THEN Min(thirds, 210) ELSE thirds

ReferenceClamp(thirds) == IF thirds < 120 THEN 120 ELSE IF thirds > 285 THEN 285 ELSE thirds

\* to the nearest integer; a number of thirds is never half way
ReferenceRound(thirds) == (thirds + 1) \div 3

ReferenceConfidence(issue_type, severity, affected_system, description) ==
  ReferenceRound(ReferenceClamp(ReferenceCap(
    ReferenceRaw(field_score(issue_type, description),
                 field_score(severity, description),
                 field_score(affected_system, description)),
    issue_type, affected_system)))

\* C11 (original statement): compute_confidence equals the reference value
\* computed with weights of exactly 1/3
C11_EqualsReference ==
  eval.returned
    => eval.confidence = ReferenceConfidence(eval.issue_type, eval.severity,
                                             eval.affected_system, eval.description)

(***************************************************************************)
(* C12.  When issue_type and affected_system are both non-empty and equal  *)
(* ignoring case, compute_confidence returns at most 70.                   *)
(***************************************************************************)
\* C12: issue_type and affected_system non-empty and equal ignoring case imply
\* a confidence of at most 70
C12_SameFieldCap ==
  (/\ eval.returned
   /\ eval.issue_type # EMPTY
   /\ eval.affected_system # EMPTY
   /\ lower(eval.issue_type) = lower(eval.affected_system))
    => eval.confidence <= 70

\* three fields found verbatim (a weighted sum of 99), the first and the third
\* differing in letter case only: the cap decides the result
C12_Witness ==
  /\ eval.returned
  /\ eval.issue_type = Str_login
  /\ eval.severity = Str_high
  /\ eval.affected_system = <<"L","O","G","I","N">>
  /\ eval.description = DescLogin
  /\ eval.confidence = 70

(***************************************************************************)
(* C14.  The original statement: field_score is 0.3 for a value that is    *)
(* empty or 'unknown' in any letter case, 1.0 for any other value that     *)
(* occurs in the source text as a whole word (ignoring case: the           *)
(* characters next to the occurrence, where there are any, are not word    *)
(* characters), and 0.7 in every other case.                               *)
(***************************************************************************)
WholeWordAt(fv, text, p) ==
  /\ p + Len(fv) - 1 <= Len(text)
  /\ SubSeq(text, p, p + Len(fv) - 1) = fv
  /\ p > 1 => ~IsWordChar(text[p - 1])
  /\ p + Len(fv) <= Len(text) => ~IsWordChar(text[p + Len(fv)])

OccursAsWholeWord(fv, text) == \E p \in 1..Len(text) : WholeWordAt(lower(fv), lower(text), p)

ContractScore(field_value, source_text) ==
  IF field_value = EMPTY \/ lower(field_value) = UNKNOWN THEN 3
  ELSE IF OccursAsWholeWord(field_value, source_text) THEN 10
  ELSE 7

\* C14 (original statement): field_score is 0.3 for an empty or 'unknown' value,
\* 1.0 for a value that occurs in the text as a whole word, 0.7 otherwise
C14_FieldScoreContract ==
  eval.returned => eval.score = ContractScore(eval.field_value, eval.description)

\* the part of C14 that the code meets: the three values are the only ones, an
\* empty or 'unknown' value scores 0.3, and a value that begins and ends with a
\* word character scores 1.0 exactly when it occurs as a whole word
C14_WordValuesContract ==
  eval.returned =>
    /\ eval.score \in {3, 7, 10}
    /\ eval.score = 3 <=> (eval.field_value = EMPTY \/ lower(eval.field_value) = UNKNOWN)
    /\ (/\ eval.field_value # EMPTY
        /\ IsWordChar(eval.field_value[1])
        /\ IsWordChar(eval.field_value[Len(eval.field_value)]))
         => eval.score = ContractScore(eval.field_value, eval.description)

(***************************************************************************)
(* C13.  The ticket of the lifecycle example: described by DescServer,     *)
(* found open by a pass that ran to its end, and analysed with the         *)
(* extraction crash / critical / auth system.                              *)
(***************************************************************************)
LifecycleTicket(i) ==
  /\ PassRan
  /\ ~Raised(notices')
  /\ FoundOpen(i)
  /\ ticket_file'[i].description = DescServer
  /\ \E k \in CallsFor(calls', ticket_file'[i].ticket_no, "extract") :
       calls'[k].response = ServerExtraction

Scores(t) ==
  <<field_score(t.ai_analysis.issue_type, t.description),
    field_score(t.ai_analysis.severity, t.description),
    field_score(t.ai_analysis.affected_system, t.description)>>

C13_AmendedStep ==
  \A i \in DOMAIN ticket_file' :
    LifecycleTicket(i)
      => /\ Scores(ticket_file'[i]) = <<7, 10, 10>>
         /\ ticket_file'[i].ai_analysis.confidence = 89
         /\ ticket_file'[i].status = "closed"

C13_OriginalStep ==
  \A i \in DOMAIN ticket_file' :
    LifecycleTicket(i)
      => /\ Scores(ticket_file'[i]) = <<10, 10, 10>>
         /\ ticket_file'[i].ai_analysis.confidence = 95
         /\ ticket_file'[i].status = "closed"

FailedExtractions(cs, kinds) ==
  {k \in DOMAIN cs : cs[k].service = "extract" /\ cs[k].response.kind \in kinds}

\* a call raised that is not an extraction failure of the given kinds
OtherCallRaised(cs, kinds) ==
  \E k \in DOMAIN cs :
    /\ cs[k].response.kind = "raise"
    /\ ~(cs[k].service = "extract" /\ "raise" \in kinds)

RecoveredAsUnknown(t) ==
  /\ HasAnalysis(t)
  /\ t.ai_analysis.issue_type = UNKNOWN
  /\ t.ai_analysis.severity = UNKNOWN
  /\ t.ai_analysis.affected_system = UNKNOWN
  /\ t.ai_analysis.confidence = 40
  /\ t.ai_analysis.propose_fix = NONE
  /\ t.status = "need review"

\* a pass in which extractions failed in one of the given ways, and no other
\* call raised, recovers
ExtractionFailureRecovered(kinds) ==
  (PassRan /\ FailedExtractions(calls', kinds) # {} /\ ~OtherCallRaised(calls', kinds))
    => /\ ~Raised(notices')
       /\ \A k \in FailedExtractions(calls', kinds) :
            \E i \in DOMAIN ticket_file' :
              /\ ticket_file'[i].ticket_no = calls'[k].ticket_no
              /\ FoundOpen(i)
              /\ RecoveredAsUnknown(ticket_file'[i])
       /\ \A i \in DOMAIN ticket_file' : ticket_file'[i].status # "open"

\* C15 (original statement): an extraction that fails, by an unparseable answer
\* or by a call that brings none, is recovered as all-unknown, confidence 40,
\* need review, and the pass goes on and saves
C15_ExtractionFailureRecovered == [][ExtractionFailureRecovered({"text", "raise"})]_vars

\* the part of C15 that the code meets: an answer without a JSON object is
\* recovered
C15_UnparseableRecovered == [][ExtractionFailureRecovered({"text"})]_vars

(***************************************************************************)
(* C16.  filter_tickets returns, in their order, the tickets that satisfy  *)
(* every facet that is not 'none': the status facet by the ticket's        *)
(* status, the severity facet by the severity of its ai_analysis, which a  *)
(* ticket without ai_analysis or without severity does not satisfy.  With  *)
(* both facets 'none' the result is the input.  The call changes neither   *)
(* its input nor the files.                                                *)
(***************************************************************************)
SatisfiesFacets(t, status, severity) ==
  /\ status # "none" => t.status = status
  /\ severity # NONE
       => /\ HasAnalysis(t)
          /\ "severity" \in DOMAIN t.ai_analysis
          /\ t.ai_analysis.severity = severity

Kept(tickets, status, severity) ==
  {i \in DOMAIN tickets : SatisfiesFacets(tickets[i], status, severity)}

\* the k-th smallest position of a set of positions
Nth(positions, k) ==
  CHOOSE i \in positions : Cardinality({j \in positions : j <= i}) = k

C16_Results ==
  eval.returned =>
    /\ Len(eval.results) = Cardinality(Kept(eval.tickets, eval.status, eval.severity))
    /\ \A k \in DOMAIN eval.results :
         eval.results[k] =
           eval.tickets[Nth(Kept(eval.tickets, eval.status, eval.severity), k)]
    /\ (eval.status = "none" /\ eval.severity = NONE) => eval.results = eval.tickets

C16_InputKept ==
  /\ eval'.tickets = eval.tickets
  /\ UNCHANGED <<ticket_file, memory_file>>

\* C16: filter_tickets returns, in order, exactly the tickets that satisfy every
\* facet that is not 'none', the whole input when both are 'none', and changes
\* neither its input nor the files
C16_FilterContract == []C16_Results /\ [][C16_InputKept]_vars

\* a severity facet alone: the first ticket has no ai_analysis and is left
\* out, the second has the severity and is returned
C16_Witness ==
  /\ eval.returned
  /\ eval.status = "none"
  /\ eval.severity = Str_high
  /\ Len(eval.tickets) = 2
  /\ ~HasAnalysis(eval.tickets[1])
  /\ eval.results = <<eval.tickets[2]>>

(***************************************************************************)
(* C17.  The original statement: when the mutating actions of two sessions *)
(* overlap, no update is lost.  Every ticket that was created is in the    *)
(* store, at the position of its creation; no two tickets share a number;  *)
(* and no step takes a ticket back from the status a session gave it, or   *)
(* takes its ai_analysis or human_resolution away.                         *)
(***************************************************************************)
CreatedTicketsKept ==
  /\ Len(ticket_file) = Len(assigned)
  /\ \A i \in DOMAIN ticket_file : ticket_file[i].ticket_no = assigned[i]

UniqueNumbers ==
  \A i, j \in DOMAIN ticket_file :
    i # j => ticket_file[i].ticket_no # ticket_file[j].ticket_no

StatusRank(status) ==
  IF status = "open" THEN 0 ELSE IF status = "need review" THEN 1 ELSE 2

TransitionsKept ==
  \A i \in DOMAIN ticket_file :
    /\ i \in DOMAIN ticket_file'
    /\ StatusRank(ticket_file'[i].status) >= StatusRank(ticket_file[i].status)
    /\ HasAnalysis(ticket_file[i]) => HasAnalysis(ticket_file'[i])
    /\ HasResolution(ticket_file[i]) => HasResolution(ticket_file'[i])

\* C17 (original statement): with two sessions whose loads and saves interleave,
\* every created ticket stays in the store, ticket numbers stay unique and no
\* transition is undone
C17_NoLostUpdate ==
  [](CreatedTicketsKept /\ UniqueNumbers) /\ [][TransitionsKept]_vars

(***************************************************************************)
(* C18.  The original statement: a Query Parser answer that is not a       *)
(* well-formed pair of facets (text without a JSON object, an object       *)
(* without the status or the severity key, a facet outside the allowed     *)
(* values) makes the search behave as with the facets none, none: no       *)
(* error, and every ticket of the store is returned, in order.             *)
(***************************************************************************)
AllowedStatus == {"open", "need review", "closed", "none"}

AllowedSeverity ==
  {<<"l","o","w">>, <<"m","e","d","i","u","m">>, Str_high, Str_critical, NONE}

WellFormedFacets(response) ==
  /\ response.kind = "json"
  /\ {"status", "severity"} \subseteq DOMAIN response.dict
  /\ response.dict.status \in AllowedStatus
  /\ response.dict.severity \in AllowedSeverity

\* the step ran the search with an answer of the Query Parser that is one of
\* the given kinds of malformed answer
MalformedSearch(malformed(_)) ==
  /\ op'.name = "search"
  /\ calls' # <<>>
  /\ calls'[1].response.kind # "raise"
  /\ malformed(calls'[1].response)

SearchedWithoutFilter ==
  /\ ~Raised(notices')
  /\ search_results' = ticket_file

NotWellFormed(response) == ~WellFormedFacets(response)

NoJsonObject(response) == response.kind = "text"

\* C18 (original statement): every answer of the Query Parser that is not a
\* well-formed facet pair makes the search return the whole store without an
\* error
C18_MalformedAsNone == [][MalformedSearch(NotWellFormed) => SearchedWithoutFilter]_vars

\* the part of C18 that the code meets: an answer without a JSON object
C18_UnparseableAsNone == [][MalformedSearch(NoJsonObject) => SearchedWithoutFilter]_vars

(***************************************************************************)
(* C19.  The original statement: the resolution memory and the ticket      *)
(* store agree.  Each memory entry names exactly one ticket, by a          *)
(* ticket_no identical to the ticket's, and that ticket is closed with the *)
(* entry's resolution as its human_resolution; each ticket that has a      *)
(* human_resolution has exactly one memory entry.                          *)
(***************************************************************************)
MemoryAgrees(same(_, _)) ==
  /\ \A k \in DOMAIN memory_file :
       /\ Cardinality({i \in DOMAIN ticket_file :
                         same(ticket_file[i].ticket_no, memory_file[k].ticket_no)}) = 1
       /\ \A i \in DOMAIN ticket_file :
            same(ticket_file[i].ticket_no, memory_file[k].ticket_no)
              => /\ ticket_file[i].status = "closed"
                 /\ HasResolution(ticket_file[i])
                 /\ ticket_file[i].human_resolution = memory_file[k].resolution
  /\ \A i \in DOMAIN ticket_file :
       HasResolution(ticket_file[i])
         => Cardinality({k \in DOMAIN memory_file :
                           same(ticket_file[i].ticket_no, memory_file[k].ticket_no)}) = 1

Identical(ticket_no, entry_no) == ticket_no = entry_no

\* C19 (original statement): each memory entry carries the ticket_no of exactly
\* one ticket, closed with the entry's resolution, and each ticket with a
\* human_resolution has exactly one entry, whatever spelling was typed
C19_MemoryAgreesIdentical == MemoryAgrees(Identical)

\* the part of C19 that the code meets: the same, with the entry's ticket_no
\* compared as the handler compares what is typed (stripped, in upper case)
C19_MemoryAgreesAsTyped == MemoryAgrees(SameTicketNo)

(***************************************************************************)
(* C20.  The original statement: over any sequence of actions, passes      *)
(* ended part-way by a failing external call included, the Extraction      *)
(* Service is called at most once for each ticket and the Fix Generator at *)
(* most once for each ticket.                                              *)
(***************************************************************************)
\* C20 (original statement): no ticket has the Extraction Service or the Fix
\* Generator called for it a second time
C20_AnalysedOnce == invoked.again = {}

\* the part of C20 that the code meets: a ticket analysed by a pass that ran to
\* its end is saved as closed or in need review, and no later step calls a
\* service for a ticket that is not open
C20_NotOpenNotCalled ==
  [][\A i \in DOMAIN ticket_file :
       ticket_file[i].status # "open"
         => \A k \in DOMAIN calls' : calls'[k].ticket_no # ticket_file[i].ticket_no]_vars

=============================================================================
